---- MODULE Spec2Model ----
(***************************************************************************)
(* Model of the library_updater ingestion pipeline (src/src/updater.rs):   *)
(* the process-wide UPDATE_LOCK, the orchestrator update(), its six gate   *)
(* cells and the twelve ingest tasks running process::<T>().               *)
(*                                                                         *)
(* Atomicity.  A task has two steps: leaving the polling loop of its wait  *)
(* stage, and the body of process() that follows it (download, before      *)
(* hook, row upserts, after hook) together with the gate write of the      *)
(* spawn wrapper.  A poll that finds a gate not Success changes nothing    *)
(* and is a stuttering step.  The entry of update() up to the last         *)
(* tokio::spawn is one step; the join loop is one step, taken when it      *)
(* leaves the loop.                                                        *)
(* When update() is entered again after an earlier invocation ended, the   *)
(* task and gate variables describe the tasks and gates of the new         *)
(* invocation: they are fresh objects that share nothing with the tasks    *)
(* of the earlier one.                                                     *)
(*                                                                         *)
(* Rows.  RowSpec is a second view of the same tasks, by dump line and by  *)
(* row (src/src/types.rs): the store with its tables and stored            *)
(* procedures, and the body of process() step by step for one task at a    *)
(* time.  Spec leaves the variables of that view untouched.                *)
(***************************************************************************)
EXTENDS Integers, Sequences, FiniteSets, TLC

\* ---------------------------------------------------------------- bounds
\* rows of INSERT values in every dump file
NRows == 1
\* task failures (error returns and panics) injected per run
MaxFaults == 1
\* dump lines and value tuples read in the row-level view
MaxInput == 2

\* ------------------------------------------------------- static structure
\* variant of JoinOrder: the handles of the dependents of Author are awaited
\* before the handle of Author
JoinOrderDependentsFirst ==
    << "BookAuthor", "Translator", "AuthorAnnotation", "Author", "Book", "Sequence",
       "SequenceInfo", "BookAnnotation", "BookAnnotationPic",
       "AuthorAnnotationPic", "Genre", "BookGenre" >>

\* the twelve tasks in the order of the join loop
JoinOrder ==
    << "Author", "Book", "BookAuthor", "Translator", "Sequence", "SequenceInfo",
       "BookAnnotation", "BookAnnotationPic", "AuthorAnnotation",
       "AuthorAnnotationPic", "Genre", "BookGenre" >>

Tasks == { JoinOrder[i] : i \in 1..Len(JoinOrder) }

\* the six status cells, named after their owning task
Gates == { "Author", "Book", "Sequence", "BookAnnotation", "AuthorAnnotation", "Genre" }

\* deps vector handed to process::<T>() by each tokio::spawn
Deps(t) ==
    CASE t = "BookAuthor"          -> { "Author", "Book" }
      [] t = "Translator"          -> { "Author", "Book" }
      [] t = "SequenceInfo"        -> { "Book", "Sequence" }
      [] t = "BookAnnotation"      -> { "Book" }
      [] t = "BookAnnotationPic"   -> { "BookAnnotation" }
      [] t = "AuthorAnnotation"    -> { "Author" }
      [] t = "AuthorAnnotationPic" -> { "AuthorAnnotation" }
      [] t = "BookGenre"           -> { "Genre", "Book" }
      [] OTHER                     -> {}

\* variant of StatusOnOk: an owner that returns Ok publishes Fail
StatusOnOkFail(t) == "Fail"

\* value the spawn wrapper of an owning task writes when process() returns Ok
StatusOnOk(t) == "Success"

\* variant of StatusOnErr: every owner publishes Fail on Err
StatusOnErrAlwaysFail(t) == "Fail"

\* value the spawn wrapper of an owning task writes when process() returns Err
StatusOnErr(t) == IF t = "Author" THEN "Success" ELSE "Fail"

\* tokens of the argument of a sanitizer
MaxText == 4

\* no sanitizer has been called
NoResult == [ fn |-> "none", val |-> << >> ]

\* SQL NULL; the serial ids of the tables start at 1
NULL == 0

\* the tables before any dump was ingested, and no stored procedure installed
EmptyDb ==
    [ procs |-> {},
      authors |-> << >>, books |-> << >>, sequences |-> << >>, genres |-> << >>,
      book_authors |-> << >>, translations |-> << >>, book_sequences |-> << >>,
      book_genres |-> << >>, book_annotations |-> << >>, author_annotations |-> << >> ]

VARIABLES
    lock,        \* UPDATE_LOCK is held
    orch,        \* stage of the invocation that holds the lock, or "idle"
    lastResult,  \* what the most recent return of update() was
    gate,        \* the six Option<UpdateStatus> cells
    pc,          \* stage of each task
    res,         \* result of each task's future
    applied,     \* rows each task has upserted
    db,          \* the PostgreSQL store: its tables and stored procedures
    subject,     \* the task under observation; only it and its ancestors run
    cur,         \* the task whose process() body is executing, or "none"
    phase,       \* position of cur in the body of process()
    lineNo,      \* lines cur has read from its dump file
    rowNo,       \* rows of the current INSERT statement cur has taken
    inflight,    \* upserts cur has issued and not yet seen return
    hist,        \* the rows cur has upserted, in the order they returned
    budget,      \* dump lines and rows still to be read
    held,        \* pooled connections cur has checked out and not dropped
    file,        \* the local dump file of cur in the view of one download
    text,        \* the argument of a call of a sanitizer of utils.rs
    result       \* the sanitizer called and the string it returned

\* the variables of the row-level view of one process() body
rowVars == << db, subject, cur, phase, lineNo, rowNo, inflight, hist, budget, held, file >>

\* the variables of a call of a sanitizer
textVars == << text, result >>

vars == << lock, orch, lastResult, gate, pc, res, applied, rowVars, textVars >>

orchVars == << lock, orch, lastResult >>
taskVars == << gate, pc, res, applied >>

Init ==
    /\ lock = FALSE
    /\ orch = "idle"
    /\ lastResult = "none"
    /\ gate = [g \in Gates |-> "None"]
    /\ pc = [t \in Tasks |-> "unspawned"]
    /\ res = [t \in Tasks |-> "none"]
    /\ applied = [t \in Tasks |-> 0]
    /\ db = EmptyDb
    /\ subject = "none"
    /\ cur = "none"
    /\ phase = "idle"
    /\ lineNo = 0
    /\ rowNo = 0
    /\ inflight = << >>
    /\ hist = << >>
    /\ budget = 0
    /\ held = 0
    /\ file = "absent"
    /\ text = << >>
    /\ result = NoResult

\* ------------------------------------------------------------------ tasks
Alive(t) == pc[t] \in { "wait", "run" }

Failed(t) == res[t] \in { "Err", "Panic" }

\* no task has ended with an error or a panic
NoTaskFails == \A t \in Tasks : ~Failed(t)

Faults == Cardinality({ t \in Tasks : Failed(t) })

CanFail == Faults < MaxFaults

\* variant of DepsReady: the loop exits although a gate is still None
DepsReadyIgnoringNone(t) == ~(\E d \in Deps(t) : gate[d] = "Fail")

\* the exit test of the polling loop of process()
DepsReady(t) ==
    LET some_failed == \E d \in Deps(t) : gate[d] = "Fail"
        some_none   == \E d \in Deps(t) : gate[d] = "None"
    IN  ~some_failed /\ ~some_none

\* stage entered by a task when it is spawned: the wait loop is skipped
\* when deps is empty
FirstStage(t) == IF Deps(t) # {} THEN "wait" ELSE "run"

\* the stages of the body of process() after the wait loop, in program order
BodyStages == << "download", "before" >> \o [i \in 1..NRows |-> "row"] \o << "after" >>

\* the ways a stage can end the task early: an Err return, or a panic
\* (unwrap of pool.get(), panic! of a row mapper)
StageFailures(stage) ==
    CASE stage = "download" -> { "Err" }
      [] stage = "before"   -> { "Err", "Panic" }
      [] stage = "row"      -> { "Err", "Panic" }
      [] stage = "after"    -> { "Err", "Panic" }

\* rows upserted when the body stops in stage number i (all of them when
\* i is past the last stage)
RowsBefore(i) == Cardinality({ j \in 1..(i - 1) : j <= Len(BodyStages) /\ BodyStages[j] = "row" })

\* variant of Complete: a task that fails takes every other task down with it
CompleteAbortingSiblings(t, r) ==
    /\ pc' = IF r = "Ok" THEN [pc EXCEPT ![t] = "done"] ELSE [u \in Tasks |-> "done"]
    /\ res' = [res EXCEPT ![t] = r]
    /\ gate' = gate

\* the future of a task completes with result r; the spawn wrapper of an
\* owning task then writes its gate, unless a panic unwound it
Complete(t, r) ==
    /\ pc' = [pc EXCEPT ![t] = "done"]
    /\ res' = [res EXCEPT ![t] = r]
    /\ gate' = CASE t \in Gates /\ r = "Ok"  -> [gate EXCEPT ![t] = StatusOnOk(t)]
                 [] t \in Gates /\ r = "Err" -> [gate EXCEPT ![t] = StatusOnErr(t)]
                 [] OTHER                    -> gate

\* one poll of the wait loop that finds every dep gate Success
WaitDeps(t) ==
    /\ pc[t] = "wait"
    /\ DepsReady(t)
    /\ pc' = [pc EXCEPT ![t] = "run"]
    /\ UNCHANGED << gate, res, applied, orchVars, rowVars, textVars >>

\* the body of process() after the wait loop: it runs every stage, or
\* stops in stage i with one of that stage's failures
Process(t) ==
    /\ pc[t] = "run"
    /\ \/ /\ applied' = [applied EXCEPT ![t] = RowsBefore(Len(BodyStages) + 1)]
          /\ Complete(t, "Ok")
       \/ /\ CanFail
          /\ \E i \in 1..Len(BodyStages) : \E r \in StageFailures(BodyStages[i]) :
                /\ applied' = [applied EXCEPT ![t] = RowsBefore(i)]
                /\ Complete(t, r)
    /\ UNCHANGED << orchVars, rowVars, textVars >>

\* ----------------------------------------------------------- orchestrator
\* variant of EndWith: a panic leaves the guard held
EndWithLeakingOnPanic(r) ==
    /\ lock' = (r = "Panic")
    /\ orch' = "idle"
    /\ lastResult' = r

\* the invocation ends: its _lock guard is dropped
EndWith(r) ==
    /\ lock' = FALSE
    /\ orch' = "idle"
    /\ lastResult' = r

\* variant of SpawnAll: the gate cells of the previous run are reused
SpawnAllReusingGates ==
    /\ gate' = gate
    /\ pc' = [t \in Tasks |-> FirstStage(t)]
    /\ res' = [t \in Tasks |-> "none"]
    /\ applied' = [t \in Tasks |-> 0]

\* the six gates are created None and the twelve tasks are spawned
SpawnAll ==
    /\ gate' = [g \in Gates |-> "None"]
    /\ pc' = [t \in Tasks |-> FirstStage(t)]
    /\ res' = [t \in Tasks |-> "none"]
    /\ applied' = [t \in Tasks |-> 0]

\* variant of TryLock: the guard is taken whether or not it is held
TryLockAlways == TRUE

\* UPDATE_LOCK.try_lock(): succeeds iff the mutex is free
TryLock == ~lock

\* entry of update(): try_lock, get_postgres_pool, get_source, spawns.
\* A failed try_lock returns its error; an Err of the pool or of the source
\* lookup is turned into panic!, which drops the guard.
Invoke ==
    IF ~TryLock
      THEN /\ lastResult' = "AlreadyRunning"
           /\ UNCHANGED << lock, orch, taskVars >>
      ELSE \/ /\ lock' = TRUE
              /\ orch' = "join"
              /\ lastResult' = "none"
              /\ SpawnAll
           \/ /\ EndWith("Panic")
              /\ UNCHANGED taskVars

\* update() is called by the cron job or by the handler of POST /update
Trigger == Invoke /\ UNCHANGED << rowVars, textVars >>

\* outcome of the join loop body for the handle it awaits: a JoinError is
\* returned as Err, an Err result of the task is turned into panic!
JoinOutcome(r) ==
    CASE r = "Panic" -> "Err"
      [] r = "Err"   -> "Panic"
      [] OTHER       -> "next"

\* variant of Passed: the result of an awaited handle is not looked at
PassedUnchecked(i) == \A j \in 1..(i - 1) : pc[JoinOrder[j]] = "done"

\* the handles the join loop has passed once it reaches position i: each
\* of them completed with Ok(Ok(_))
Passed(i) == \A j \in 1..(i - 1) : pc[JoinOrder[j]] = "done" /\ res[JoinOrder[j]] = "Ok"

\* the join loop.  It blocks on the first handle in JoinOrder whose task has
\* not completed; it leaves update() at the first handle that completed
\* with a failure, and it falls through to the webhooks when all twelve
\* handles completed with Ok.  The iterations over handles that are already
\* complete are taken together with the iteration that leaves the loop.
Join ==
    /\ orch = "join"
    /\ \/ \E i \in 1..Len(JoinOrder) :
             /\ Passed(i)
             /\ pc[JoinOrder[i]] = "done"
             /\ JoinOutcome(res[JoinOrder[i]]) # "next"
             /\ EndWith(JoinOutcome(res[JoinOrder[i]]))
       \/ /\ Passed(Len(JoinOrder) + 1)
          /\ orch' = "webhooks"
          /\ UNCHANGED << lock, lastResult >>
    /\ UNCHANGED << taskVars, rowVars, textVars >>

\* the ways send_webhooks() can end: every request answered 2xx, a request
\* or status error, a panic on a header that is not a valid string
WebhookOutcomes == { "Ok", "Err", "Panic" }

\* send_webhooks() and the return of update()
Webhooks ==
    /\ orch = "webhooks"
    /\ \E r \in WebhookOutcomes : EndWith(r)
    /\ UNCHANGED << taskVars, rowVars, textVars >>

Next ==
    \/ Trigger
    \/ Join
    \/ Webhooks
    \/ \E t \in Tasks : WaitDeps(t)
    \/ \E t \in Tasks : Process(t)

Spec == Init /\ [][Next]_vars


TypeOK ==
    /\ lock \in BOOLEAN
    /\ orch \in { "idle", "join", "webhooks" }
    /\ lastResult \in { "none", "Ok", "Err", "Panic", "AlreadyRunning" }
    /\ gate \in [Gates -> { "None", "Success", "Fail" }]
    /\ pc \in [Tasks -> { "unspawned", "wait", "run", "done" }]
    /\ res \in [Tasks -> { "none", "Ok", "Err", "Panic" }]
    /\ applied \in [Tasks -> 0..NRows]

\* the steps the tokio runtime schedules by itself
Internal == Join \/ Webhooks \/ \E t \in Tasks : WaitDeps(t) \/ Process(t)

\* The tokio runtime polls every spawned future that can make progress: a
\* task whose gates are all Success leaves its wait loop at one of its polls
\* (one a second), a task past the loop runs its body, and update() goes on
\* in its join loop and through its webhooks.  FairSpec asks for the least
\* of it: while one of them can take a step, one of them does.  Nothing
\* obliges anyone to call update().  Its behaviours are the behaviours of
\* Spec in which no download, read, statement or mapper fails in any task;
\* the pool, the source lookup and the webhooks fail as they do in Spec.
FairNext == Next /\ NoTaskFails'

FairSpec == Init /\ [][FairNext]_vars /\ WF_vars(Internal)

\* an invocation of update() holds the guard, or none has returned yet
Running == lock \/ lastResult = "none"

\* RunSpec follows one invocation of update() to its end, with the task
\* failures of Spec.  SpawnAll creates the gates and the tasks anew, so
\* every invocation starts as the first one does; a trigger that arrives
\* while the guard is held changes nothing but lastResult and is left out.
\* The runtime takes a step of the invocation while one can be taken.
RunNext == Next /\ Running /\ lastResult' # "AlreadyRunning"

RunSpec == Init /\ [][RunNext]_vars /\ WF_vars(Internal /\ Running)

\* ------------------------------------------------------ values and casts
\* Strings are sequences of characters.

\* one pass of str::replace for a one-character pattern
RECURSIVE ReplaceChar(_, _, _)
ReplaceChar(s, c, r) ==
    IF s = << >> THEN << >>
    ELSE (IF Head(s) = c THEN r ELSE << Head(s) >>) \o ReplaceChar(Tail(s), c, r)

\* one pass of str::replace for a two-character pattern: leftmost matches,
\* not overlapping
RECURSIVE ReplacePair(_, _, _, _)
ReplacePair(s, c1, c2, r) ==
    IF Len(s) < 2 THEN s
    ELSE IF s[1] = c1 /\ s[2] = c2
           THEN r \o ReplacePair(SubSeq(s, 3, Len(s)), c1, c2, r)
           ELSE << s[1] >> \o ReplacePair(Tail(s), c1, c2, r)

\* variant of remove_wrong_chars: a semicolon becomes a space
remove_wrong_chars_spacing(s) ==
    LET s1 == ReplaceChar(s, ";", << " " >>)
        s2 == ReplaceChar(s1, "\n", << " " >>)
        s3 == ReplaceChar(s2, "yo", << "ye" >>)
        s4 == ReplacePair(s3, "\\", "\"", << "\"" >>)
    IN  ReplacePair(s4, "\\", "'", << "'" >>)

\* utils::remove_wrong_chars ("yo" and "ye" stand for the Cyrillic letters)
remove_wrong_chars(s) ==
    LET s1 == ReplaceChar(s, ";", << >>)
        s2 == ReplaceChar(s1, "\n", << " " >>)
        s3 == ReplaceChar(s2, "yo", << "ye" >>)
        s4 == ReplacePair(s3, "\\", "\"", << "\"" >>)
    IN  ReplacePair(s4, "\\", "'", << "'" >>)

UpperCase == << "A", "B", "C", "D", "E", "F", "G", "H", "I", "J", "K", "L", "M",
                "N", "O", "P", "Q", "R", "S", "T", "U", "V", "W", "X", "Y", "Z" >>
LowerCase == << "a", "b", "c", "d", "e", "f", "g", "h", "i", "j", "k", "l", "m",
                "n", "o", "p", "q", "r", "s", "t", "u", "v", "w", "x", "y", "z" >>

\* char::to_lowercase on the Latin letters
to_lowercase(c) ==
    IF \E i \in DOMAIN UpperCase : UpperCase[i] = c
      THEN LowerCase[CHOOSE i \in DOMAIN UpperCase : UpperCase[i] = c]
      ELSE c

\* utils::parse_lang
parse_lang(s) ==
    LET t == ReplaceChar(ReplaceChar(s, "-", << >>), "~", << >>)
    IN  [i \in DOMAIN t |-> to_lowercase(t[i])]

\* Annotation bodies are sequences of characters and tags: a tag is one
\* element, written as it stands in the text.

\* tags that the sanitizer is told to keep, and a tag that it is not
KeptTags == { "<a>", "</a>" }
OtherTags == { "<hr>" }

\* s holds two spaces in a row
HasDoubleSpace(s) == \E i \in 1..(Len(s) - 1) : s[i] = " " /\ s[i + 1] = " "

\* while temp_text.contains("  ") { temp_text = temp_text.replace("  ", " ") }
RECURSIVE CollapseSpaces(_)
CollapseSpaces(s) ==
    IF HasDoubleSpace(s) THEN CollapseSpaces(ReplacePair(s, " ", " ", << " " >>)) ELSE s

\* variant of temp_text: the body of the loop runs once
temp_text_one_pass(s) ==
    LET s1 == ReplaceChar(s, "<br>", << "\n" >>)
        s2 == ReplacePair(s1, "\\", "n", << "\n" >>)
        s3 == ReplacePair(s2, "\\", "\"", << "\"" >>)
    IN  ReplacePair(s3, " ", " ", << " " >>)

\* temp_text of fix_annotation_text when the loop is left
temp_text(s) ==
    LET s1 == ReplaceChar(s, "<br>", << "\n" >>)
        s2 == ReplacePair(s1, "\\", "n", << "\n" >>)
        s3 == ReplacePair(s2, "\\", "\"", << "\"" >>)
    IN  CollapseSpaces(s3)

\* the start tag of an `a` element as the sanitizer writes it: ammonia adds
\* its default rel attribute to every link
LinkStart == "<a rel=\"noopener noreferrer\">"

\* ammonia's Builder::new().tags({"a"}).clean(): the text is parsed as an
\* HTML fragment and written out again.  An element that is not allowed is
\* left out and its children stay; an `a` element is written with its end
\* tag, also when the text does not close it; a start tag of `a` inside an
\* `a` element closes that element first; an end tag without its element
\* is dropped; the characters of a text node are written as they are but
\* for `&`, which is written as an entity.  open: an `a` element is open.
RECURSIVE clean(_, _)
clean(s, open) ==
    IF s = << >> THEN (IF open THEN << "</a>" >> ELSE << >>)
    ELSE LET c == Head(s) IN
         CASE c = "<a>"  -> (IF open THEN << "</a>" >> ELSE << >>)
                              \o << LinkStart >> \o clean(Tail(s), TRUE)
           [] c = "</a>" -> (IF open THEN << "</a>" >> ELSE << >>) \o clean(Tail(s), FALSE)
           [] c \in OtherTags -> clean(Tail(s), open)
           [] c = "&"    -> << "&amp;" >> \o clean(Tail(s), open)
           [] OTHER      -> << c >> \o clean(Tail(s), open)

\* utils::fix_annotation_text
fix_annotation_text(s) == clean(temp_text(s), FALSE)

\* the Rust cast `n as iW` of an unsigned n: the low w bits, read as two's
\* complement
AsSigned(n, w) ==
    LET m == n % (2 ^ w)
    IN  IF m >= 2 ^ (w - 1) THEN m - 2 ^ w ELSE m

\* `n as i16`
AsI16(n) == AsSigned(n, 16)

\* `n as i32`, computed on the two 16-bit halves of the low 32 bits
AsI32(n) == AsSigned((n \div (2 ^ 16)) % (2 ^ 16), 16) * (2 ^ 16) + (n % (2 ^ 16))

\* the largest PostgreSQL smallint
SmallintMax == 2 ^ 15 - 1

\* ---------------------------------------------------------- dump contents
\* remote ids that occur in the dumps
RemoteIds == { 1, 2 }

\* string fields that occur in the dumps; the second one holds a character
\* that remove_wrong_chars drops
Names == { << "a" >>, << "b", ";" >> }

\* lang fields that occur in the dumps
Langs == { << "r", "u" >>, << "E", "N" >> }

\* position fields of lib.libseq.sql: a small number, its negation, the
\* first number past the smallint range, and a larger one
Positions == { 3, -3, 32768, 40000 }

\* position fields of lib.libtranslator.sql
TranslatorPositions == { 0 }

\* the value tuples of the INSERT statements of each dump file, as the SQL
\* parser delivers them; only the fields that reach the columns modelled in
\* db are kept
Literals(e) ==
    CASE e = "Author"              -> [ id : RemoteIds, last_name : Names ]
      [] e = "Book"                -> [ id : RemoteIds, lang : Langs, deleted : { "0", "1" } ]
      [] e = "BookAuthor"          -> [ book_id : RemoteIds, author_id : RemoteIds ]
      [] e = "Translator"          -> [ book_id : RemoteIds, author_id : RemoteIds,
                                        position : TranslatorPositions ]
      [] e = "Sequence"            -> [ id : RemoteIds, name : Names ]
      [] e = "SequenceInfo"        -> [ book_id : RemoteIds, sequence_id : RemoteIds,
                                        position : Positions ]
      [] e = "BookAnnotation"      -> [ book_id : RemoteIds, title : Names ]
      [] e = "BookAnnotationPic"   -> [ book_id : RemoteIds, file : Names ]
      [] e = "AuthorAnnotation"    -> [ author_id : RemoteIds, title : Names ]
      [] e = "AuthorAnnotationPic" -> [ author_id : RemoteIds, file : Names ]
      [] e = "Genre"               -> [ id : RemoteIds, code : Names ]
      [] e = "BookGenre"           -> [ book_id : RemoteIds, genre_id : RemoteIds ]

\* the integer the SequenceInfo mapper takes out of a position expression:
\* Integer(v) gives v, Unary(Minus, Integer(v)) gives v as well
PositionOf(n) == IF n < 0 THEN -n ELSE n

\* T::from_vec_expression for a value tuple of the expected types
from_vec_expression(e, v) ==
    CASE e = "Author"       -> [ id |-> v.id, last_name |-> remove_wrong_chars(v.last_name) ]
      [] e = "Book"         -> [ id |-> v.id, lang |-> parse_lang(v.lang),
                                 is_deleted |-> (v.deleted = "1") ]
      [] e = "Sequence"     -> [ id |-> v.id, name |-> remove_wrong_chars(v.name) ]
      [] e = "SequenceInfo" -> [ book_id |-> v.book_id, sequence_id |-> v.sequence_id,
                                 position |-> PositionOf(v.position) ]
      [] OTHER              -> v

\* ------------------------------------------------------ stored procedures
\* Every statement below runs with the one source id that get_source()
\* returned, so the source column is the same in every row and is left out.
\* A procedure maps the store to the set of its possible outcomes: the new
\* store with "Ok", or the unchanged store with "Err".

Returns(d) == { [ db |-> d, ret |-> "Ok" ] }
Raises(d) == { [ db |-> d, ret |-> "Err" ] }

\* SELECT id INTO x FROM tbl WHERE remote_id = rid: NULL when no row matches
SelectId(tbl, rid) ==
    IF \E i \in DOMAIN tbl : tbl[i].remote_id = rid
      THEN tbl[CHOOSE i \in DOMAIN tbl :
                 /\ tbl[i].remote_id = rid
                 /\ \A j \in DOMAIN tbl : tbl[j].remote_id = rid => i <= j].id
      ELSE NULL

\* INSERT of a row whose parent column holds `parent`: with a NULL parent
\* the schema decides, a nullable column stores the row and a NOT NULL
\* column raises
InsertChild(d, inserted, parent) ==
    IF parent = NULL THEN Returns(inserted) \cup Raises(d) ELSE Returns(inserted)

\* variant of update_author: a row that exists is left as it is
update_author_keeping(d, remote_id_, last_name_) ==
    LET t == d.authors IN
    IF \E i \in DOMAIN t : t[i].remote_id = remote_id_
      THEN Returns(d)
      ELSE Returns([d EXCEPT !.authors =
               Append(t, [ id |-> Len(t) + 1, remote_id |-> remote_id_,
                           last_name |-> last_name_ ])])

\* update_author(smallint, int, varchar, varchar, varchar); first_name and
\* middle_name are written exactly as last_name is
update_author(d, remote_id_, last_name_) ==
    LET t == d.authors IN
    IF \E i \in DOMAIN t : t[i].remote_id = remote_id_
      THEN Returns([d EXCEPT !.authors =
               [i \in DOMAIN t |-> IF t[i].remote_id = remote_id_
                                     THEN [t[i] EXCEPT !.last_name = last_name_]
                                     ELSE t[i]]])
      ELSE Returns([d EXCEPT !.authors =
               Append(t, [ id |-> Len(t) + 1, remote_id |-> remote_id_,
                           last_name |-> last_name_ ])])

update_book(d, remote_id_, lang_, is_deleted_) ==
    LET t == d.books IN
    IF \E i \in DOMAIN t : t[i].remote_id = remote_id_
      THEN Returns([d EXCEPT !.books =
               [i \in DOMAIN t |-> IF t[i].remote_id = remote_id_
                                     THEN [t[i] EXCEPT !.lang = lang_,
                                                       !.is_deleted = is_deleted_]
                                     ELSE t[i]]])
      ELSE Returns([d EXCEPT !.books =
               Append(t, [ id |-> Len(t) + 1, remote_id |-> remote_id_,
                           lang |-> lang_, is_deleted |-> is_deleted_ ])])

update_sequences(d, remote_id_, name_) ==
    LET t == d.sequences IN
    IF \E i \in DOMAIN t : t[i].remote_id = remote_id_
      THEN Returns([d EXCEPT !.sequences =
               [i \in DOMAIN t |-> IF t[i].remote_id = remote_id_
                                     THEN [t[i] EXCEPT !.name = name_]
                                     ELSE t[i]]])
      ELSE Returns([d EXCEPT !.sequences =
               Append(t, [ id |-> Len(t) + 1, remote_id |-> remote_id_,
                           name |-> name_ ])])

\* variant of update_book_author: a missing parent raises
update_book_author_strict(d, book_, author_) ==
    LET book_id   == SelectId(d.books, book_)
        author_id == SelectId(d.authors, author_)
        t == d.book_authors
    IN  IF book_id = NULL \/ author_id = NULL THEN Raises(d)
        ELSE IF \E i \in DOMAIN t : t[i].book = book_id /\ t[i].author = author_id
          THEN Returns(d)
          ELSE Returns([d EXCEPT !.book_authors =
                   Append(t, [ book |-> book_id, author |-> author_id ])])

update_book_author(d, book_, author_) ==
    LET book_id   == SelectId(d.books, book_)
        author_id == SelectId(d.authors, author_)
        t == d.book_authors
    IN  IF book_id = NULL \/ author_id = NULL THEN Returns(d)
        ELSE IF \E i \in DOMAIN t : t[i].book = book_id /\ t[i].author = author_id
          THEN Returns(d)
          ELSE Returns([d EXCEPT !.book_authors =
                   Append(t, [ book |-> book_id, author |-> author_id ])])

\* update_translation(smallint, integer, integer, smallint).
\* The NULL test runs while author_id still holds its initial -1, so only a
\* missing book returns early; a comparison with a NULL author_id is never
\* true, so EXISTS finds nothing
update_translation(d, book_, author_, position_) ==
    LET book_id   == SelectId(d.books, book_)
        author_id_at_test == -1
        author_id == SelectId(d.authors, author_)
        t == d.translations
        Same(i) == author_id # NULL /\ t[i].book = book_id /\ t[i].author = author_id
    IN  IF book_id = NULL \/ author_id_at_test = NULL THEN Returns(d)
        ELSE IF \E i \in DOMAIN t : Same(i)
          THEN Returns([d EXCEPT !.translations =
                   [i \in DOMAIN t |-> IF Same(i)
                                         THEN [t[i] EXCEPT !.position = position_]
                                         ELSE t[i]]])
          ELSE InsertChild(d, [d EXCEPT !.translations =
                   Append(t, [ book |-> book_id, author |-> author_id,
                               position |-> position_ ])], author_id)

\* ABS on a smallint: the negation of the least smallint is out of range
Abs(n) == IF n < 0 THEN -n ELSE n
AbsRaises(n) == Abs(n) > SmallintMax

\* variant of update_book_sequence4: the position is stored as it was passed
update_book_sequence4_signed(d, book_, sequence_, position_) ==
    LET book_id     == SelectId(d.books, book_)
        sequence_id == SelectId(d.sequences, sequence_)
        t == d.book_sequences
    IN  IF book_id = NULL THEN Returns(d)
        ELSE IF sequence_id = NULL THEN Returns(d)
        ELSE IF \E i \in DOMAIN t : t[i].book = book_id /\ t[i].sequence = sequence_id
          THEN Returns([d EXCEPT !.book_sequences =
                   [i \in DOMAIN t |-> IF t[i].book = book_id /\ t[i].sequence = sequence_id
                                         THEN [t[i] EXCEPT !.position = position_]
                                         ELSE t[i]]])
          ELSE Returns([d EXCEPT !.book_sequences =
                   Append(t, [ book |-> book_id, sequence |-> sequence_id,
                               position |-> position_ ])])

\* update_book_sequence(smallint, integer, integer, smallint)
update_book_sequence4(d, book_, sequence_, position_) ==
    LET book_id     == SelectId(d.books, book_)
        sequence_id == SelectId(d.sequences, sequence_)
        t == d.book_sequences
    IN  IF book_id = NULL THEN Returns(d)
        ELSE IF sequence_id = NULL THEN Returns(d)
        ELSE IF AbsRaises(position_) THEN Raises(d)
        ELSE IF \E i \in DOMAIN t : t[i].book = book_id /\ t[i].sequence = sequence_id
          THEN Returns([d EXCEPT !.book_sequences =
                   [i \in DOMAIN t |-> IF t[i].book = book_id /\ t[i].sequence = sequence_id
                                         THEN [t[i] EXCEPT !.position = Abs(position_)]
                                         ELSE t[i]]])
          ELSE Returns([d EXCEPT !.book_sequences =
                   Append(t, [ book |-> book_id, sequence |-> sequence_id,
                               position |-> Abs(position_) ])])

\* update_book_sequence(smallint, integer, integer), which fills book_genres:
\* genre_id is never tested for NULL
update_book_sequence3(d, book_, genre_) ==
    LET book_id  == SelectId(d.books, book_)
        genre_id == SelectId(d.genres, genre_)
        t == d.book_genres
    IN  IF book_id = NULL THEN Returns(d)
        ELSE IF \E i \in DOMAIN t :
                   genre_id # NULL /\ t[i].book = book_id /\ t[i].genre = genre_id
          THEN Returns(d)
          ELSE InsertChild(d, [d EXCEPT !.book_genres =
                   Append(t, [ book |-> book_id, genre |-> genre_id ])], genre_id)

\* the file column of a new annotation row is NULL, written as the empty
\* string
update_book_annotation(d, book_, title_) ==
    LET book_id == SelectId(d.books, book_)
        t == d.book_annotations
    IN  IF \E i \in DOMAIN t : book_id # NULL /\ t[i].book = book_id
          THEN Returns([d EXCEPT !.book_annotations =
                   [i \in DOMAIN t |-> IF t[i].book = book_id
                                         THEN [t[i] EXCEPT !.title = title_]
                                         ELSE t[i]]])
        ELSE IF book_id = NULL THEN Returns(d)
        ELSE Returns([d EXCEPT !.book_annotations =
                 Append(t, [ book |-> book_id, title |-> title_, file |-> << >> ])])

\* author_id is never tested for NULL
update_author_annotation(d, author_, title_) ==
    LET author_id == SelectId(d.authors, author_)
        t == d.author_annotations
    IN  IF \E i \in DOMAIN t : author_id # NULL /\ t[i].author = author_id
          THEN Returns([d EXCEPT !.author_annotations =
                   [i \in DOMAIN t |-> IF t[i].author = author_id
                                         THEN [t[i] EXCEPT !.title = title_]
                                         ELSE t[i]]])
        ELSE InsertChild(d, [d EXCEPT !.author_annotations =
                 Append(t, [ author |-> author_id, title |-> title_, file |-> << >> ])],
                 author_id)

\* variant of set_book_annotation_file: the statement has no WHERE clause
set_book_annotation_file_everywhere(d, book_, file_) ==
    Returns([d EXCEPT !.book_annotations =
        [i \in DOMAIN @ |-> [@[i] EXCEPT !.file = file_]]])

\* UPDATE book_annotations SET file = .. FROM (SELECT id FROM books ..)
set_book_annotation_file(d, book_, file_) ==
    LET ids == { d.books[i].id : i \in { j \in DOMAIN d.books : d.books[j].remote_id = book_ } }
        t == d.book_annotations
    IN  Returns([d EXCEPT !.book_annotations =
            [i \in DOMAIN t |-> IF t[i].book \in ids THEN [t[i] EXCEPT !.file = file_]
                                                     ELSE t[i]]])

\* UPDATE author_annotations SET file = .. FROM (SELECT id FROM authors ..)
set_author_annotation_file(d, author_, file_) ==
    LET ids == { d.authors[i].id : i \in { j \in DOMAIN d.authors : d.authors[j].remote_id = author_ } }
        t == d.author_annotations
    IN  Returns([d EXCEPT !.author_annotations =
            [i \in DOMAIN t |-> IF t[i].author \in ids THEN [t[i] EXCEPT !.file = file_]
                                                       ELSE t[i]]])

\* SELECT of a stored procedure: it raises when no hook has created it
Call(d, proc, outcomes) == IF proc \in d.procs THEN outcomes ELSE Raises(d)

\* the procedures that T::before_update creates
Installs(e) ==
    CASE e = "Author"           -> { "update_author" }
      [] e = "Book"             -> { "update_book" }
      [] e = "BookAuthor"       -> { "update_book_author" }
      [] e = "Translator"       -> { "update_translation" }
      [] e = "Sequence"         -> { "update_sequences" }
      [] e = "SequenceInfo"     -> { "update_book_sequence4" }
      [] e = "BookAnnotation"   -> { "update_book_annotation" }
      [] e = "AuthorAnnotation" -> { "update_author_annotation" }
      [] e = "Genre"            -> { "update_book_sequence3" }
      [] OTHER                  -> {}

before_update(e, d) == [d EXCEPT !.procs = @ \cup Installs(e)]

\* the languages Book::after_update keeps
KeptLangs == { << "r", "u" >>, << "b", "e" >>, << "u", "k" >> }

\* variant of after_update: the books in other languages are deleted
after_update_purging(e, d) ==
    IF e = "Book"
      THEN [d EXCEPT !.books = SelectSeq(@, LAMBDA b : b.lang \in KeptLangs)]
      ELSE d

\* variant of after_update: no book is marked
after_update_noop(e, d) == d

\* T::after_update: only Book has one
after_update(e, d) ==
    IF e = "Book"
      THEN [d EXCEPT !.books =
               [i \in DOMAIN @ |-> IF @[i].lang \notin KeptLangs
                                     THEN [@[i] EXCEPT !.is_deleted = TRUE]
                                     ELSE @[i]]]
      ELSE d

\* value.update(&client, source_id) for a mapped row v of entity e: the
\* casts of its arguments and its statement.  No hook creates the procedure
\* update_genre that Genre::update selects.
update(e, d, v) ==
    CASE e = "Author" ->
           Call(d, "update_author", update_author(d, AsI32(v.id), v.last_name))
      [] e = "Book" ->
           Call(d, "update_book", update_book(d, AsI32(v.id), v.lang, v.is_deleted))
      [] e = "BookAuthor" ->
           Call(d, "update_book_author",
                update_book_author(d, AsI32(v.book_id), AsI32(v.author_id)))
      [] e = "Translator" ->
           Call(d, "update_translation",
                update_translation(d, AsI32(v.book_id), AsI32(v.author_id), AsI16(v.position)))
      [] e = "Sequence" ->
           Call(d, "update_sequences", update_sequences(d, AsI32(v.id), v.name))
      [] e = "SequenceInfo" ->
           Call(d, "update_book_sequence4",
                update_book_sequence4(d, AsI32(v.book_id), AsI32(v.sequence_id),
                                      AsI16(v.position)))
      [] e = "BookAnnotation" ->
           Call(d, "update_book_annotation",
                update_book_annotation(d, AsI32(v.book_id), v.title))
      [] e = "BookAnnotationPic" ->
           set_book_annotation_file(d, AsI32(v.book_id), v.file)
      [] e = "AuthorAnnotation" ->
           Call(d, "update_author_annotation",
                update_author_annotation(d, AsI32(v.author_id), v.title))
      [] e = "AuthorAnnotationPic" ->
           set_author_annotation_file(d, AsI32(v.author_id), v.file)
      [] e = "Genre" ->
           Call(d, "update_genre", Raises(d))
      [] e = "BookGenre" ->
           Call(d, "update_book_sequence3",
                update_book_sequence3(d, AsI32(v.book_id), AsI32(v.genre_id)))

\* the stored procedures the statement of T::update selects; the two Pic
\* entities send an UPDATE statement of their own
Calls(e) ==
    CASE e = "Author"           -> { "update_author" }
      [] e = "Book"             -> { "update_book" }
      [] e = "BookAuthor"       -> { "update_book_author" }
      [] e = "Translator"       -> { "update_translation" }
      [] e = "Sequence"         -> { "update_sequences" }
      [] e = "SequenceInfo"     -> { "update_book_sequence4" }
      [] e = "BookAnnotation"   -> { "update_book_annotation" }
      [] e = "AuthorAnnotation" -> { "update_author_annotation" }
      [] e = "Genre"            -> { "update_genre" }
      [] e = "BookGenre"        -> { "update_book_sequence3" }
      [] OTHER                  -> {}

\* ------------------------------------------- the body of process(), by row
\* One invocation's tasks, taken one after another: a task runs its whole
\* body before the next one leaves its wait loop, in the order of the
\* spawns.  Only the subject and the tasks it depends on run; the others
\* never touch the tables the subject reads or writes.  The content of a
\* dump file is chosen as it is read.

\* the subject, the owners of its gates, and the owners of theirs
Family(s) == { s } \cup Deps(s) \cup UNION { Deps(d) : d \in Deps(s) }

\* the store an upsert of row v leaves when it returns Ok
Upserted(e, d, v) ==
    (CHOOSE o \in update(e, d, from_vec_expression(e, v)) : o.ret = "Ok").db

\* the store left by an earlier invocation that ran every before hook and
\* ingested author 1, book 1 and sequence 1
IngestedDb ==
    LET d0 == [EmptyDb EXCEPT !.procs = UNION { Installs(t) : t \in Tasks }]
        d1 == Upserted("Author", d0, [ id |-> 1, last_name |-> << "a" >> ])
        d2 == Upserted("Book", d1, [ id |-> 1, lang |-> << "r", "u" >>, deleted |-> "0" ])
    IN  Upserted("Sequence", d2, [ id |-> 1, name |-> << "a" >> ])

\* the store left by an earlier invocation that also ingested an annotation
\* of book 1 and of author 1 and a picture for each
AnnotatedDb ==
    LET d1 == Upserted("BookAnnotation", IngestedDb, [ book_id |-> 1, title |-> << "a" >> ])
        d2 == Upserted("BookAnnotationPic", d1, [ book_id |-> 1, file |-> << "a" >> ])
        d3 == Upserted("AuthorAnnotation", d2, [ author_id |-> 1, title |-> << "a" >> ])
    IN  Upserted("AuthorAnnotationPic", d3, [ author_id |-> 1, file |-> << "a" >> ])

\* the tasks that read or write an annotation table
AnnotationTasks ==
    { "BookAnnotation", "BookAnnotationPic", "AuthorAnnotation", "AuthorAnnotationPic" }

\* the stores a run that observes task s starts from: the empty one, and
\* one an earlier invocation left.  Only the annotation tasks read or write
\* the annotation tables, so only they start from the store that has rows
\* in them.
InitialStores(s) ==
    { EmptyDb, IF s \in AnnotationTasks THEN AnnotatedDb ELSE IngestedDb }

\* no process() body is executing
Quiet == IF cur = "none" THEN TRUE ELSE pc[cur] = "done"

\* task t of the family can go on: it is past its wait loop or can leave it
Pending(t) ==
    /\ t \in Family(subject)
    /\ \/ pc[t] = "run"
       \/ pc[t] = "wait" /\ DepsReady(t)

\* position of task t in the order of the spawns
Rank(t) == CHOOSE i \in DOMAIN JoinOrder : JoinOrder[i] = t

\* t is the next task to go on
Turn(t) == Quiet /\ Pending(t) /\ \A u \in Tasks : Pending(u) => Rank(t) <= Rank(u)

RowInit ==
    /\ lock = TRUE
    /\ orch = "join"
    /\ lastResult = "none"
    /\ gate = [g \in Gates |-> "None"]
    /\ pc = [t \in Tasks |-> FirstStage(t)]
    /\ res = [t \in Tasks |-> "none"]
    /\ applied = [t \in Tasks |-> 0]
    /\ subject \in Tasks
    /\ db \in InitialStores(subject)
    /\ cur = "none"
    /\ phase = "idle"
    /\ lineNo = 0
    /\ rowNo = 0
    /\ inflight = << >>
    /\ hist = << >>
    /\ budget = MaxInput
    /\ held = 0
    /\ file = "absent"
    /\ text = << >>
    /\ result = NoResult

\* process() returns r, or unwinds: its locals are dropped and the spawn
\* wrapper writes the gate
Finish(r) ==
    /\ Complete(cur, r)
    /\ phase' = "end"
    /\ lineNo' = 0
    /\ rowNo' = 0
    /\ hist' = << >>
    /\ held' = 0
    /\ UNCHANGED << textVars, file, orchVars, subject, cur, budget >>

\* a task of the family leaves its wait loop
Admit(t) ==
    /\ Turn(t)
    /\ WaitDeps(t)

\* download_file and read_lines succeed
Begin(t) ==
    /\ Turn(t)
    /\ pc[t] = "run"
    /\ cur' = t
    /\ phase' = "before"
    /\ lineNo' = 0
    /\ rowNo' = 0
    /\ inflight' = << >>
    /\ hist' = << >>
    /\ UNCHANGED << textVars, file, orchVars, taskVars, db, subject, budget, held >>

\* download_file or read_lines returns Err
BeginFails(t) ==
    /\ Turn(t)
    /\ pc[t] = "run"
    /\ cur' = t
    /\ Complete(t, "Err")
    /\ phase' = "end"
    /\ lineNo' = 0
    /\ rowNo' = 0
    /\ inflight' = << >>
    /\ hist' = << >>
    /\ UNCHANGED << textVars, file, orchVars, applied, db, subject, budget, held >>

\* pool.get(): one more connection is checked out
Checkout(n) == n + 1

\* variant of Checkin: a client that goes out of scope stays checked out
CheckinLeaking(n) == n

\* a client is dropped where its scope ends (the statement of a hook, one
\* iteration of the row loop): its connection goes back to the pool
Checkin(n) == n - 1

\* T::before_update on a pooled connection, a temporary of the match
\* statement
Before ==
    /\ phase = "before"
    /\ db' = before_update(cur, db)
    /\ phase' = "lines"
    /\ held' = Checkin(Checkout(held))
    /\ UNCHANGED << textVars, file, orchVars, taskVars, subject, cur, lineNo, rowNo, inflight, hist, budget >>

\* pool.get() fails and unwrap panics, or the CREATE FUNCTION statement fails
BeforeFails ==
    /\ phase = "before"
    /\ \E r \in StageFailures("before") : Finish(r)
    /\ UNCHANGED << applied, db, inflight >>

\* the line iterator is exhausted
EndOfFile ==
    /\ phase = "lines"
    /\ phase' = "after"
    /\ UNCHANGED << textVars, file, orchVars, taskVars, db, subject, cur, lineNo, rowNo, inflight, hist, budget, held >>

\* variant of OnNoMatch: a line that is not an INSERT ends the task with Err
OnNoMatchFatal ==
    /\ Complete(cur, "Err")
    /\ phase' = "end"
    /\ lineNo' = 0
    /\ UNCHANGED << textVars, file, orchVars, applied, db, subject, cur, rowNo, inflight, hist, held >>

\* the if-let on the parsed statement does not match: the body of the line
\* loop is over and the loop takes the next line
OnNoMatch ==
    /\ lineNo' = lineNo + 1
    /\ UNCHANGED << textVars, file, orchVars, taskVars, db, subject, cur, phase, rowNo, inflight, hist, held >>

\* the next line is read; parse_statement gives None for it, or a statement
\* other than an INSERT
SkipLine ==
    /\ phase = "lines"
    /\ budget > 0
    /\ budget' = budget - 1
    /\ OnNoMatch

\* the next line is read and parses to an INSERT statement
ReadInsert ==
    /\ phase = "lines"
    /\ budget > 0
    /\ lineNo' = lineNo + 1
    /\ rowNo' = 0
    /\ phase' = "rows"
    /\ UNCHANGED << textVars, file, orchVars, taskVars, db, subject, cur, inflight, hist, budget, held >>

\* the line iterator yields an io::Error
ReadFails ==
    /\ phase = "lines"
    /\ Finish("Err")
    /\ UNCHANGED << applied, db, inflight >>

\* variant of MayIssue: the previous upsert is not awaited
MayIssueUnawaited == TRUE

\* value.update(..).await: the loop takes the next row only when the upsert
\* of the previous one has returned
MayIssue == inflight = << >>

\* the nested for loops take the value tuples of a statement in order
NextRow(n) == n + 1

\* the next value tuple of the statement is mapped and its upsert is sent
Issue ==
    /\ phase = "rows"
    /\ MayIssue
    /\ budget > 0
    /\ \E v \in Literals(cur) :
          inflight' = Append(inflight, [ line |-> lineNo, row |-> NextRow(rowNo), lit |-> v ])
    /\ rowNo' = NextRow(rowNo)
    /\ held' = Checkout(held)
    /\ budget' = budget - 1
    /\ UNCHANGED << textVars, file, orchVars, taskVars, db, subject, cur, phase, lineNo, hist >>

\* a value tuple of unexpected types makes the mapper panic, or pool.get()
\* fails and unwrap panics
IssuePanics ==
    /\ phase = "rows"
    /\ MayIssue
    /\ budget > 0
    /\ Finish("Panic")
    /\ UNCHANGED << applied, db, inflight >>

\* variant of OnUpdateErr: the error is logged and the loop goes on
OnUpdateErrContinue ==
    /\ inflight' = Tail(inflight)
    /\ held' = Checkin(held)
    /\ UNCHANGED << textVars, file, orchVars, taskVars, subject, cur, phase, lineNo, rowNo, hist, budget >>

\* Err(err) => return Err(err), after the row and the error are logged;
\* inflight keeps the logged row
OnUpdateErr == Finish("Err") /\ UNCHANGED << applied, inflight >>

\* the upsert in flight returns what its statement returns
Execute ==
    /\ phase = "rows"
    /\ inflight # << >>
    /\ \E o \in update(cur, db, from_vec_expression(cur, Head(inflight).lit)) :
          /\ db' = o.db
          /\ IF o.ret = "Ok"
               THEN /\ hist' = Append(hist, Head(inflight))
                    /\ inflight' = Tail(inflight)
                    /\ held' = Checkin(held)
                    /\ UNCHANGED << textVars, file, orchVars, taskVars, subject, cur, phase,
                                    lineNo, rowNo, budget >>
               ELSE OnUpdateErr

\* the upsert in flight fails with an error of the connection
ExecuteFails ==
    /\ phase = "rows"
    /\ inflight # << >>
    /\ OnUpdateErr
    /\ UNCHANGED db

\* the statement has no further value tuple
EndOfStatement ==
    /\ phase = "rows"
    /\ inflight = << >>
    /\ rowNo >= 1
    /\ phase' = "lines"
    /\ UNCHANGED << textVars, file, orchVars, taskVars, db, subject, cur, lineNo, rowNo, inflight, hist, budget, held >>

\* T::after_update on a pooled connection, then Ok(())
After ==
    /\ phase = "after"
    /\ db' = after_update(cur, db)
    /\ Finish("Ok")
    /\ UNCHANGED << applied, inflight >>

\* pool.get() fails and unwrap panics, or the statement of the hook fails
AfterFails ==
    /\ phase = "after"
    /\ \E r \in StageFailures("after") : Finish(r)
    /\ UNCHANGED << applied, db, inflight >>

\* update() is entered again later: new gates, new tasks, the same store
Respawn ==
    /\ Quiet
    /\ cur # "none"
    /\ \A t \in Tasks : ~Pending(t)
    /\ SpawnAll
    /\ cur' = "none"
    /\ phase' = "idle"
    /\ lineNo' = 0
    /\ rowNo' = 0
    /\ inflight' = << >>
    /\ hist' = << >>
    /\ held' = 0
    /\ UNCHANGED << textVars, file, orchVars, db, subject, budget >>

RowNext ==
    \/ \E t \in Tasks : Admit(t)
    \/ \E t \in Tasks : Begin(t)
    \/ \E t \in Tasks : BeginFails(t)
    \/ Before
    \/ BeforeFails
    \/ EndOfFile
    \/ SkipLine
    \/ ReadInsert
    \/ ReadFails
    \/ Issue
    \/ IssuePanics
    \/ Execute
    \/ ExecuteFails
    \/ EndOfStatement
    \/ After
    \/ AfterFails
    \/ Respawn

RowSpec == RowInit /\ [][RowNext]_vars

\* ------------------------------------------------------------ the download
\* FileSpec is the view of one task from the end of its wait loop to the
\* first hook: download_file statement by statement, then read_lines.  The
\* local file is absent, or it holds what an earlier download left: a whole
\* dump, or the part written before a copy failed.  The rest of process()
\* is one step.

FileStates == { "absent", "complete", "partial" }

FileInit ==
    /\ lock = TRUE
    /\ orch = "join"
    /\ lastResult = "none"
    /\ gate = [g \in Gates |-> "None"]
    /\ cur \in Tasks
    /\ pc = [t \in Tasks |-> IF t = cur THEN "run" ELSE "unspawned"]
    /\ res = [t \in Tasks |-> "none"]
    /\ applied = [t \in Tasks |-> 0]
    /\ db = EmptyDb
    /\ subject = cur
    /\ phase = "request"
    /\ lineNo = 0
    /\ rowNo = 0
    /\ inflight = << >>
    /\ hist = << >>
    /\ budget = 0
    /\ held = 0
    /\ file \in FileStates
    /\ text = << >>
    /\ result = NoResult

\* the frame of a statement of download_file that goes on to the next one
Proceeds(next) ==
    /\ phase' = next
    /\ UNCHANGED << textVars, orchVars, taskVars, db, subject, cur, lineNo, rowNo,
                    inflight, hist, budget, held >>

\* return Err(..) out of download_file or after read_lines: process()
\* returns the error to its spawn wrapper; phase stays at the statement
\* that failed
Returns_Err ==
    /\ Complete(cur, "Err")
    /\ phase' = phase
    /\ UNCHANGED << textVars, orchVars, applied, db, subject, cur, lineNo, rowNo,
                    inflight, hist, budget, held >>

\* reqwest::get(link).await
Request ==
    /\ pc[cur] = "run"
    /\ phase = "request"
    /\ file' = file
    /\ (Proceeds("status") \/ Returns_Err)

\* variant of CheckStatus: the old file is removed before the status is read
CheckStatusRemoving ==
    /\ pc[cur] = "run"
    /\ phase = "status"
    /\ file' = "absent"
    /\ (Proceeds("remove") \/ Returns_Err)

\* response.error_for_status()
CheckStatus ==
    /\ pc[cur] = "run"
    /\ phase = "status"
    /\ file' = file
    /\ (Proceeds("remove") \/ Returns_Err)

\* remove_file(filename_str).await: an error (no such file, or another one)
\* is logged and the function goes on
Remove ==
    /\ pc[cur] = "run"
    /\ phase = "remove"
    /\ file' \in { "absent", file }
    /\ Proceeds("create")

\* File::create(filename_str).await: the file is created or truncated
Create ==
    /\ pc[cur] = "run"
    /\ phase = "create"
    /\ \/ file' = "partial" /\ Proceeds("copy")
       \/ file' = file /\ Returns_Err

\* copy(decoder, &mut file).await: the body of the response, decompressed
Copy ==
    /\ pc[cur] = "run"
    /\ phase = "copy"
    /\ \/ file' = "complete" /\ Proceeds("open")
       \/ file' = "partial" /\ Returns_Err

\* read_lines(file_name)
Open ==
    /\ pc[cur] = "run"
    /\ phase = "open"
    /\ file' = file
    /\ (Proceeds("before") \/ Returns_Err)

\* the hooks and the line loop of process() on the file, and Ok(())
Body ==
    /\ pc[cur] = "run"
    /\ phase = "before"
    /\ db' = after_update(cur, before_update(cur, db))
    /\ Complete(cur, "Ok")
    /\ phase' = "end"
    /\ UNCHANGED << textVars, orchVars, applied, subject, cur, lineNo, rowNo,
                    inflight, hist, budget, held, file >>

FileNext == Request \/ CheckStatus \/ Remove \/ Create \/ Copy \/ Open \/ Body

FileSpec == FileInit /\ [][FileNext]_vars

\* ------------------------------------------------------- the HTTP trigger
\* The handler of POST /update (src/src/main.rs).  A header value is a
\* sequence of bytes; a header map is a sequence of name-value pairs; an
\* Option is a sequence of length 0 or 1.

\* config::CONFIG.api_key: the bytes of "key"
ApiKey == << 107, 101, 121 >>

\* header values a client sends: the key, a prefix of it, the key with a
\* character added, and the byte 0xE9, which HTTP allows in a field value
HeaderValues == { ApiKey, << 107 >>, << 107, 101, 121, 33 >>, << 233 >> }

\* the header maps of the requests
Requests ==
    { << >> } \cup
    { << << n, v >> >> : n \in { "Authorization", "X-Api-Key" }, v \in HeaderValues }

\* HeaderMap::get
get(headers, name) ==
    IF \E i \in DOMAIN headers : headers[i][1] = name
      THEN << headers[CHOOSE i \in DOMAIN headers : headers[i][1] = name][2] >>
      ELSE << >>

\* the bytes HeaderValue::to_str accepts
VisibleAscii(b) == b = 9 \/ (b >= 32 /\ b < 127)

\* HeaderValue::to_str: the value as a string, or an error
to_str(v) ==
    IF \A i \in DOMAIN v : VisibleAscii(v[i])
      THEN [ ok |-> TRUE, str |-> v ]
      ELSE [ ok |-> FALSE, str |-> << >> ]

\* the handler returns body without calling update()
Answers(body) ==
    /\ result' = [ fn |-> "update", val |-> << body >> ]
    /\ UNCHANGED << orchVars, taskVars, rowVars >>

\* the handler of POST /update for a request with the given headers.
\* unwrap() of a to_str error panics: the handler's future is dropped and
\* the client gets none of the three bodies.  The spawned future calls
\* update() at its first poll.
PostUpdate(headers) ==
    /\ text' = headers
    /\ LET api_key == get(headers, "Authorization")
       IN  IF api_key = << >>
             THEN Answers("No api-key!")
           ELSE IF ~to_str(api_key[1]).ok
             THEN Answers("panic")
           ELSE IF ApiKey # to_str(api_key[1]).str
             THEN Answers("Wrong api-key!")
           ELSE /\ result' = [ fn |-> "update", val |-> << "Update started" >> ]
                /\ Invoke
                /\ UNCHANGED rowVars

\* HttpSpec: update() is called by the handler only, and no task fails
HttpNext == ((\E h \in Requests : PostUpdate(h)) \/ Internal) /\ NoTaskFails'

HttpSpec == Init /\ [][HttpNext]_vars

\* ------------------------------------------------------- wide remote ids
\* An unsigned 64-bit id is the sequence of its four 16-bit limbs, the most
\* significant first.

\* ids of lib.libavtorname.sql rows: 1, 2, 2^31, 2^32 - 1 and 2^32 + 1
WideIds ==
    { << 0, 0, 0, 1 >>, << 0, 0, 0, 2 >>, << 0, 0, 32768, 0 >>,
      << 0, 0, 65535, 65535 >>, << 0, 1, 0, 1 >> }

\* `x as i32` of a u64 x: its low 32 bits, read as two's complement
U64AsI32(x) == AsSigned(x[3], 16) * (2 ^ 16) + x[4]

\* KeySpec: the Author task upserts rows with such ids; update_author is
\* installed
KeyInit ==
    /\ lock = TRUE
    /\ orch = "join"
    /\ lastResult = "none"
    /\ gate = [g \in Gates |-> "None"]
    /\ pc = [t \in Tasks |-> FirstStage(t)]
    /\ res = [t \in Tasks |-> "none"]
    /\ applied = [t \in Tasks |-> 0]
    /\ db = before_update("Author", EmptyDb)
    /\ subject = "Author"
    /\ cur = "Author"
    /\ phase = "rows"
    /\ lineNo = 1
    /\ rowNo = 0
    /\ inflight = << >>
    /\ hist = << >>
    /\ budget = MaxInput
    /\ held = 0
    /\ file = "complete"
    /\ text = << >>
    /\ result = NoResult

\* Author::from_vec_expression and Author::update for the next value tuple
UpsertAuthor ==
    /\ budget > 0
    /\ \E id \in WideIds, name \in Names :
          LET v == [ id |-> id, last_name |-> remove_wrong_chars(name) ]
          IN  \E o \in Call(db, "update_author",
                            update_author(db, U64AsI32(v.id), v.last_name)) :
                 /\ db' = o.db
                 /\ hist' = Append(hist, [ line |-> lineNo, row |-> NextRow(rowNo), lit |-> v ])
    /\ rowNo' = NextRow(rowNo)
    /\ budget' = budget - 1
    /\ UNCHANGED << textVars, file, orchVars, taskVars, subject, cur, phase, lineNo, inflight, held >>

KeySpec == KeyInit /\ [][UpsertAuthor]_vars

\* ---------------------------------------------------------- the sanitizers
\* A call of a sanitizer of utils.rs on a string, as the row mappers make
\* it: the string is chosen from the strings below and the sanitizer is
\* applied once.

\* the strings of at most n elements of A
Strings(A, n) == UNION { [1..k -> A] : k \in 0..n }

\* characters of a name or title field: each character remove_wrong_chars
\* looks for, and a letter
NameChars == { ";", "\n", "yo", "\\", "\"", "'", "a" }

\* elements of an annotation body: the tag and the characters
\* fix_annotation_text looks for, a tag the sanitizer keeps, one it strips,
\* a letter, and a character that HTML writes as an entity
BodyElements == { "<br>", "\\", "n", "\"", " ", "x", "&" } \cup KeptTags \cup OtherTags

\* the string a;b\nc\"d with a newline as its fourth character, then a
\* backslash and a double quote
SampleName == << "a", ";", "b", "\n", "c", "\\", "\"", "d" >>

TextInit ==
    /\ lock = FALSE
    /\ orch = "idle"
    /\ lastResult = "none"
    /\ gate = [g \in Gates |-> "None"]
    /\ pc = [t \in Tasks |-> "unspawned"]
    /\ res = [t \in Tasks |-> "none"]
    /\ applied = [t \in Tasks |-> 0]
    /\ db = EmptyDb
    /\ subject = "none"
    /\ cur = "none"
    /\ phase = "idle"
    /\ lineNo = 0
    /\ rowNo = 0
    /\ inflight = << >>
    /\ hist = << >>
    /\ budget = 0
    /\ held = 0
    /\ file = "absent"
    /\ text \in Strings(NameChars, MaxText) \cup Strings(BodyElements, MaxText) \cup { SampleName }
    /\ result = NoResult

\* remove_wrong_chars(&text)
CallRemoveWrongChars ==
    /\ result = NoResult
    /\ result' = [ fn |-> "remove_wrong_chars", val |-> remove_wrong_chars(text) ]
    /\ UNCHANGED << orchVars, taskVars, rowVars, text >>

\* fix_annotation_text(&text)
CallFixAnnotationText ==
    /\ result = NoResult
    /\ result' = [ fn |-> "fix_annotation_text", val |-> fix_annotation_text(text) ]
    /\ UNCHANGED << orchVars, taskVars, rowVars, text >>

TextNext == CallRemoveWrongChars \/ CallFixAnnotationText

TextSpec == TextInit /\ [][TextNext]_vars

\* ----------------------------------------------------------------- claims
\* a step in which an invocation of update() takes the guard and spawns
Spawned == ~lock /\ lock'

\* a step in which the invocation that spawned the tasks ends
Ended == lock /\ ~lock'

\* C1: an invocation of update() made while the guard is held returns the
\* try_lock error in that same step, and leaves the guard, the running
\* orchestrator, the gates and every task as they were: it creates no pool,
\* queries nothing, downloads nothing and spawns nothing.
C1_RejectedImmediately ==
    [][(lock /\ Trigger) =>
          /\ lastResult' = "AlreadyRunning"
          /\ UNCHANGED << lock, orch, gate, pc, res, applied >>]_vars

C1_Witness ==
    /\ lock
    /\ lastResult = "AlreadyRunning"
    /\ \E t \in Tasks : pc[t] = "run"

\* C2: the guard is held as long as any task spawned by its invocation is
\* still waiting, downloading or upserting.
C2_GuardCoversTasks == (\E t \in Tasks : Alive(t)) => lock

\* C3: a task that has left its wait stage (it has started its download,
\* its before hook or its upserts) has no pending dependency gate.
C3_NoStartWhilePending ==
    \A t \in Tasks : pc[t] \in { "run", "done" } => \A d \in Deps(t) : gate[d] # "None"

C3_Witness ==
    /\ pc["BookAuthor"] = "run"
    /\ pc["SequenceInfo"] = "wait"
    /\ gate["Sequence"] = "None"

\* C4: a waiting task whose dependency gates are all non-pending (success or
\* failed) is not kept waiting: its next poll leaves the wait loop.
C4_NonPendingReleases ==
    \A t \in Tasks :
        (pc[t] = "wait" /\ \A d \in Deps(t) : gate[d] # "None") => ENABLED WaitDeps(t)

\* C5: when update() ends after spawning, every one of the twelve tasks has
\* terminated.
C5_JoinsAllTasks == [][Ended => \A t \in Tasks : pc[t] = "done"]_vars

\* C6: update() ends by returning Err when a task returned Err and by
\* returning Ok when all twelve returned Ok; it never ends by a panic of the
\* join loop.
C6_AggregatesResults ==
    [][Ended =>
          /\ lastResult' # "Panic"
          /\ (\E t \in Tasks : res[t] = "Err") => lastResult' = "Err"
          /\ (\A t \in Tasks : res[t] = "Ok") => lastResult' = "Ok"]_vars

\* C7: every gate is None when its run's tasks are spawned; afterwards a gate
\* changes only from None, only in the step in which its owning task
\* completes, and no other task moves in that step.
C7_GateWrittenOnceByOwner ==
    [][IF Spawned
         THEN \A g \in Gates : gate'[g] = "None"
         ELSE \A g \in Gates :
                gate'[g] # gate[g] =>
                    /\ gate[g] = "None"
                    /\ gate'[g] # "None"
                    /\ pc[g] = "run" /\ pc'[g] = "done"
                    /\ \A t \in Tasks \ {g} : pc'[t] = pc[t]]_vars

C7_Witness ==
    /\ lastResult = "Panic"
    /\ gate["Book"] = "Fail"
    /\ gate["Author"] = "Success"
    /\ pc["Genre"] = "run"

\* C8: a gate-owning task that has stopped has published its gate.
C8_StoppedOwnerPublished == \A g \in Gates : pc[g] = "done" => gate[g] # "None"

\* C9: the gate of an owner that returned Ok is Success; the gate of an
\* owner that returned Err is Success for Author and Fail for the others.
C9_GateValueOnReturn ==
    \A g \in Gates :
        /\ res[g] = "Ok" => gate[g] = "Success"
        /\ res[g] = "Err" => gate[g] = (IF g = "Author" THEN "Success" ELSE "Fail")

C9_Witness ==
    /\ res["Author"] = "Err"
    /\ gate["Author"] = "Success"
    /\ res["Genre"] = "Ok"
    /\ gate["Genre"] = "Success"

\* the tasks a task depends on, directly or transitively
Ancestors(t) == Deps(t) \cup UNION { Deps(d) : d \in Deps(t) }

\* a spawned task that has not failed and depends on no failed task
Untouched(t) == pc[t] # "unspawned" /\ ~Failed(t) /\ \A a \in Ancestors(t) : ~Failed(a)

\* the task has returned Ok with every row of its dump applied
RanToEnd(t) == pc[t] = "done" /\ res[t] = "Ok" /\ applied[t] = NRows

\* C10: whatever task has failed and whether or not update() has ended, the
\* tasks that can be left unfinished are the failed ones and those that
\* depend on a failed one: when no task and no orchestrator step is possible
\* any more, every spawned task that has not failed and does not depend,
\* directly or transitively, on a failed task has returned Ok with all rows
\* of its dump applied.  (Every internal step advances a task or the
\* orchestrator, so a run reaches such a state when runnable futures are
\* polled.)
C10_SiblingsRunToEnd ==
    (~ENABLED Internal) => \A t \in Tasks : Untouched(t) => RanToEnd(t)

C10_Witness ==
    /\ ~ENABLED Internal
    /\ res["Book"] = "Err"
    /\ ~lock
    /\ lastResult = "Panic"
    /\ pc["BookGenre"] = "wait"
    /\ \A t \in { "Author", "AuthorAnnotation", "AuthorAnnotationPic", "Sequence", "Genre" } :
          RanToEnd(t)

\* ------------------------------------------------- claims on the row level
\* the stores that upserting rows, in order, can leave from a store of D
RECURSIVE Reapplied(_, _, _)
Reapplied(e, D, rows) ==
    IF rows = << >> THEN D
    ELSE Reapplied(e,
             { o.db : o \in UNION { update(e, d, from_vec_expression(e, Head(rows).lit)) : d \in D } },
             Tail(rows))

\* no two rows of a keyed table carry the same remote id
UniqueKeys(tbl) == \A i, j \in DOMAIN tbl : tbl[i].remote_id = tbl[j].remote_id => i = j

\* C11: upserting once more the rows a task has upserted leaves the store
\* as it is, for every entity, and the keyed tables hold each remote id
\* at most once.
C11_UpsertsIdempotent ==
    /\ cur # "none" => Reapplied(cur, { db }, hist) = { db }
    /\ UniqueKeys(db.authors) /\ UniqueKeys(db.books)
    /\ UniqueKeys(db.sequences) /\ UniqueKeys(db.genres)

\* the entities whose table is keyed by the remote id
Keyed == { "Author", "Book", "Sequence", "Genre" }

KeyedTable(e, d) ==
    CASE e = "Author"   -> d.authors
      [] e = "Book"     -> d.books
      [] e = "Sequence" -> d.sequences
      [] e = "Genre"    -> d.genres

\* the columns of a stored row are the fields of the mapped row v
SameFields(e, stored, v) ==
    CASE e = "Author"   -> stored.last_name = v.last_name
      [] e = "Book"     -> stored.lang = v.lang /\ stored.is_deleted = v.is_deleted
      [] e = "Sequence" -> stored.name = v.name
      [] e = "Genre"    -> stored.code = v.code

\* C12: while a task of a keyed entity upserts its rows, its table holds,
\* for every remote id the task has seen, exactly one row, and the columns
\* of that row are the fields of the last row seen with that remote id.
C12_LastRowWins ==
    cur \in Keyed =>
        \A i \in DOMAIN hist :
            (\A j \in DOMAIN hist : j > i => hist[j].lit.id # hist[i].lit.id) =>
                LET v    == from_vec_expression(cur, hist[i].lit)
                    tbl  == KeyedTable(cur, db)
                    rows == { n \in DOMAIN tbl : tbl[n].remote_id = AsI32(v.id) }
                IN  /\ Cardinality(rows) = 1
                    /\ \A n \in rows : SameFields(cur, tbl[n], v)

\* two Author rows with one remote id and different names were upserted,
\* and authors holds the name of the second
C12_Witness ==
    /\ cur = "Author"
    /\ Len(hist) = 2
    /\ hist[1].lit.id = hist[2].lit.id
    /\ hist[1].lit.last_name # hist[2].lit.last_name
    /\ Len(db.authors) = 1
    /\ db.authors[1].last_name = remove_wrong_chars(hist[2].lit.last_name)
    /\ db.authors[1].last_name # remove_wrong_chars(hist[1].lit.last_name)

\* the upsert in flight has returned Ok and the row loop goes on
UpsertReturnedOk ==
    /\ inflight' = << >>
    /\ hist' = Append(hist, Head(inflight))
    /\ phase' = "rows"
    /\ pc'[cur] = "run"
    /\ res'[cur] = "none"

\* C13: the upsert of a BookAuthor row whose book or author is not in the
\* store leaves the store as it is and returns Ok, and the task stays in
\* its row loop.
C13_OrphanBookAuthorSkipped ==
    [][(/\ Execute
        /\ cur = "BookAuthor"
        /\ \/ SelectId(db.books, Head(inflight).lit.book_id) = NULL
           \/ SelectId(db.authors, Head(inflight).lit.author_id) = NULL)
       => db' = db /\ UpsertReturnedOk]_vars

\* a BookAuthor row without its author was skipped and the next row, whose
\* parents exist, was inserted
C13_Witness ==
    /\ cur = "BookAuthor"
    /\ Len(hist) = 2
    /\ SelectId(db.books, hist[1].lit.book_id) # NULL
    /\ SelectId(db.authors, hist[1].lit.author_id) = NULL
    /\ Len(db.book_authors) = 1
    /\ db.book_authors[1].author = SelectId(db.authors, hist[2].lit.author_id)

\* the local id of the second parent of a Translator, SequenceInfo or
\* BookGenre row v
SecondParent(e, d, v) ==
    CASE e = "Translator"   -> SelectId(d.authors, v.author_id)
      [] e = "SequenceInfo" -> SelectId(d.sequences, v.sequence_id)
      [] e = "BookGenre"    -> SelectId(d.genres, v.genre_id)

\* C14: the upsert of a Translator, SequenceInfo or BookGenre row one of
\* whose parents is not in the store leaves the store as it is and
\* returns Ok.
C14_OrphanRelationSkipped ==
    [][(/\ Execute
        /\ cur \in { "Translator", "SequenceInfo", "BookGenre" }
        /\ \/ SelectId(db.books, Head(inflight).lit.book_id) = NULL
           \/ SecondParent(cur, db, Head(inflight).lit) = NULL)
       => db' = db /\ UpsertReturnedOk]_vars

\* every book in a language other than ru, be, uk is marked deleted
Filtered(d) == \A i \in DOMAIN d.books : d.books[i].lang \notin KeptLangs => d.books[i].is_deleted

C16_PositionsNotNegative ==
    \A i \in DOMAIN db.book_sequences : db.book_sequences[i].position >= 0

\* a row was inserted from a negative position literal and then updated
\* from a literal whose 16-bit cast is negative
C16_Witness ==
    /\ cur = "SequenceInfo"
    /\ Len(hist) = 2
    /\ hist[1].lit.position < 0
    /\ AsI16(PositionOf(hist[2].lit.position)) < 0
    /\ Len(db.book_sequences) = 1
    /\ db.book_sequences[1].position = Abs(AsI16(PositionOf(hist[2].lit.position)))

\* C17: the upsert of a SequenceInfo row whose book and sequence are in the
\* store returns Ok and leaves, for that book and sequence, the absolute
\* value of the position of the dump row.
C17_AbsolutePositionStored ==
    [][(/\ Execute
        /\ cur = "SequenceInfo"
        /\ SelectId(db.books, Head(inflight).lit.book_id) # NULL
        /\ SelectId(db.sequences, Head(inflight).lit.sequence_id) # NULL)
       => LET v == Head(inflight).lit
              b == SelectId(db.books, v.book_id)
              q == SelectId(db.sequences, v.sequence_id)
          IN  /\ UpsertReturnedOk
              /\ \E i \in DOMAIN db'.book_sequences :
                    /\ db'.book_sequences[i].book = b
                    /\ db'.book_sequences[i].sequence = q
                    /\ db'.book_sequences[i].position = Abs(v.position)]_vars

\* file position a comes before file position b: line order, then the order
\* of the value tuples inside one statement
ComesBefore(a, b) == a.line < b.line \/ (a.line = b.line /\ a.row < b.row)

\* a step that sends an upsert
Issued == Len(inflight') > Len(inflight)

\* C18: when a task sends an upsert, every upsert it sent before has
\* returned, the row comes later in the file than every row upserted so
\* far, and no value tuple of the statement was passed over.
C18_UpsertsInFileOrder ==
    [][Issued =>
          LET new == inflight'[Len(inflight')]
          IN  /\ inflight = << >>
              /\ \A i \in DOMAIN hist : ComesBefore(hist[i], new)
              /\ new.line = lineNo
              /\ new.row = Cardinality({ i \in DOMAIN hist : hist[i].line = new.line }) + 1]_vars

\* the first value tuple of a statement has been upserted and the second
\* one is in flight
C18_Witness ==
    /\ Len(hist) = 1
    /\ Len(inflight) = 1
    /\ inflight[1].line = hist[1].line
    /\ hist[1].row = 1
    /\ inflight[1].row = 2

\* the steps of the body of process() after its first stage
BodyStep ==
    \/ Before \/ BeforeFails \/ EndOfFile \/ SkipLine \/ ReadInsert \/ ReadFails
    \/ Issue \/ IssuePanics \/ Execute \/ ExecuteFails \/ EndOfStatement
    \/ After \/ AfterFails

\* a step in which the upsert in flight returns an error
UpsertReturnedErr == (Execute \/ ExecuteFails) /\ hist' # Append(hist, Head(inflight))

\* C19: when an upsert returns an error, the task returns Err in the same
\* step without changing the store or reading on, an owner other than
\* Author publishes Fail, and the task takes no further step: no later
\* row, no second attempt, no after hook.
C19_FirstUpsertErrorFatal ==
    /\ [][UpsertReturnedErr =>
            /\ pc'[cur] = "done"
            /\ res'[cur] = "Err"
            /\ phase' = "end"
            /\ db' = db
            /\ budget' = budget
            /\ cur \in Gates \ { "Author" } => gate'[cur] = "Fail"]_vars
    /\ [](phase = "end" => ~ENABLED BodyStep)

\* the Book task has returned the error of an upsert and published Fail
C19_Witness ==
    /\ cur = "Book"
    /\ phase = "end"
    /\ inflight # << >>
    /\ res["Book"] = "Err"
    /\ gate["Book"] = "Fail"
    /\ budget = 0

\* a step that reads a line from which no upsert is sent
ReadOtherLine == budget' = budget - 1 /\ inflight' = inflight

\* C20: a line that is not an INSERT statement, or does not parse, changes
\* nothing but the position in the file: no upsert is sent, the store and
\* the rows upserted so far stay as they are, no task completes, and the
\* task is still in its line loop.
C20_OtherLinesSkipped ==
    [][ReadOtherLine =>
          /\ lineNo' = lineNo + 1
          /\ phase = "lines" /\ phase' = "lines"
          /\ db' = db
          /\ hist' = hist
          /\ UNCHANGED << gate, pc, res >>]_vars

\* the first line of the file was skipped, the row of the second line was
\* upserted, and the task has reached its after hook
C20_Witness ==
    /\ phase = "after"
    /\ Len(hist) = 1
    /\ hist[1].line = 2
    /\ hist[1].row = 1

\* the tasks of the invocation whose before hook has run: the ones the
\* subject waits for that returned Ok, and the one in the body of process()
\* past its before stage
HookRan(t) ==
    \/ t \in Gates /\ gate[t] = "Success" /\ res[t] = "Ok"
    \/ t = cur /\ phase \in { "lines", "rows", "after" }

\* C21: when an upsert is sent, every stored procedure its statement selects
\* is in the store and was created, under the name and with the argument
\* list of the call, by the before hook of a task of the invocation that
\* has already run.
C21_ProceduresInstalledByRun ==
    (phase = "rows" /\ inflight # << >>) =>
        /\ Calls(cur) \subseteq db.procs
        /\ Calls(cur) \subseteq UNION { Installs(t) : t \in { u \in Tasks : HookRan(u) } }

\* C22: send_webhooks() is entered only when all twelve tasks have been
\* joined and each of them returned Ok; a step that sends the webhooks
\* starts from such a state.
C22_WebhooksOnlyOnSuccess ==
    /\ [](orch = "webhooks" => \A t \in Tasks : pc[t] = "done" /\ res[t] = "Ok")
    /\ [][Webhooks => \A t \in Tasks : pc[t] = "done" /\ ~Failed(t)]_vars

\* the webhooks are being sent after a run in which every gate is Success
C22_Witness ==
    /\ orch = "webhooks"
    /\ lock
    /\ \A g \in Gates : gate[g] = "Success"

\* the tables of the store
Tables ==
    { "authors", "books", "sequences", "genres", "book_authors", "translations",
      "book_sequences", "book_genres", "book_annotations", "author_annotations" }

\* what makes a row of table f the row it is: its serial id and remote id
\* in a keyed table, the rows it links in the others
Identity(f, row) ==
    CASE f \in { "authors", "books", "sequences", "genres" } -> << row.id, row.remote_id >>
      [] f \in { "book_authors", "translations" }            -> << row.book, row.author >>
      [] f = "book_sequences"                                -> << row.book, row.sequence >>
      [] f = "book_genres"                                   -> << row.book, row.genre >>
      [] f = "book_annotations"                              -> << row.book >>
      [] f = "author_annotations"                            -> << row.author >>

\* C23: no step of the pipeline (hook, upsert, or the start of a later
\* invocation) removes a row: every row of every table is in the table
\* after the step, at its place and with its identity; only its other
\* columns may have been written.
C23_NoRowDeleted ==
    [][\A f \in Tables : \A i \in DOMAIN db[f] :
          /\ i \in DOMAIN db'[f]
          /\ Identity(f, db'[f][i]) = Identity(f, db[f][i])]_vars

\* the Book task read one row, a book in another language, and returned
\* Ok: the book is marked and kept, and so is the book of the earlier
\* invocation, which the dump does not mention
C23_Witness ==
    /\ cur = "Book"
    /\ phase = "end"
    /\ res["Book"] = "Ok"
    /\ budget = MaxInput - 1
    /\ Len(db.books) = 2
    /\ db.books[1] = IngestedDb.books[1]
    /\ db.books[2].lang \notin KeptLangs
    /\ db.books[2].is_deleted

\* C24: the task in the body of process() holds at most one pooled
\* connection, it holds none when it checks one out, and it holds none
\* outside the upsert of a row: the connection of a hook and of every row
\* is back in the pool before the next one is taken, and when the task ends.
C24_OneConnectionPerTask ==
    /\ [](held \in { 0, 1 })
    /\ [](held = 1 => phase = "rows" /\ Len(inflight) = 1)
    /\ [][held' > held => held = 0]_vars

\* the connection of the first row went back to the pool and the upsert of
\* the second row holds the only one
C24_Witness ==
    /\ phase = "rows"
    /\ Len(hist) = 1
    /\ Len(inflight) = 1
    /\ held = 1

\* the twelve tasks have completed with Ok and the six gates are Success
AllIngested ==
    /\ \A t \in Tasks : pc[t] = "done" /\ res[t] = "Ok"
    /\ \A g \in Gates : gate[g] = "Success"

StageOrder ==
    { << "before", "lines" >>, << "lines", "rows" >>, << "rows", "lines" >>,
      << "lines", "after" >>, << "after", "end" >> }

\* a stage that ends the execution early
StageAbort == { << s, "end" >> : s \in { "before", "lines", "rows" } }

\* a step in which the gate of owner g becomes Success
Publishes(g) == gate[g] # "Success" /\ gate'[g] = "Success"

\* C26: a task is in the body of process() only when the gates it waits
\* for are Success; its stages follow one another in the order before, rows
\* (line by line), after, end; procedures are created in the before stage
\* only and rows are written in the rows and after stages only; the after
\* stage is entered with no upsert in flight; and a gate becomes Success
\* only in the step that completes the after hook of its owner.
C26_StagesInOrder ==
    /\ [](phase \in { "before", "lines", "rows", "after" } =>
             \A d \in Deps(cur) : gate[d] = "Success")
    /\ [][(phase' # phase /\ phase \in { "before", "lines", "rows", "after" }) =>
             << phase, phase' >> \in StageOrder \cup StageAbort]_vars
    /\ [][phase' = "before" => phase \in { "idle", "end" } /\ cur' # cur]_vars
    /\ [][db'.procs # db.procs => phase = "before"]_vars
    /\ [][(db' # db /\ db'.procs = db.procs) => phase \in { "rows", "after" }]_vars
    /\ [][phase' = "after" => inflight = << >> /\ inflight' = << >>]_vars
    /\ [][\A g \in Gates : Publishes(g) =>
             cur = g /\ phase = "after" /\ res'[g] = "Ok"]_vars

\* --------------------------------------------------- claims on sanitizers
\* fix_annotation_text has returned
Fixed == result.fn = "fix_annotation_text"

\* s holds no tag
TagFree(s) == \A i \in DOMAIN s : s[i] \notin KeptTags \cup OtherTags \cup { "<br>" }

Over(s, A) == (\A i \in DOMAIN s : s[i] \in A) /\ ~HasDoubleSpace(s)

\* how often element c stands in s
Count(s, c) == Cardinality({ i \in DOMAIN s : s[i] = c })

\* C28: in a text of letters and single spaces, fix_annotation_text writes
\* a newline for every <br> and for every backslash followed by n, a quote
\* for every backslash followed by a quote, leaves out every tag other than
\* <a> and keeps the text around it, keeps every <a> tag; and a text
\* without tags, backslashes and double spaces is returned as it is.
C28_ReplacementsAndPlainText ==
    Fixed =>
        LET plain == { "x", " " } IN
        /\ Over(text, plain \cup { "<br>" }) =>
              result.val = ReplaceChar(text, "<br>", << "\n" >>)
        /\ Over(text, plain \cup { "\\", "n" }) =>
              result.val = ReplacePair(text, "\\", "n", << "\n" >>)
        /\ Over(text, plain \cup { "\\", "\"" }) =>
              result.val = ReplacePair(text, "\\", "\"", << "\"" >>)
        /\ Over(text, plain \cup OtherTags) =>
              result.val = SelectSeq(text, LAMBDA c : c \in plain)
        /\ Over(text, plain \cup KeptTags) =>
              /\ Count(result.val, LinkStart) = Count(text, "<a>")
              /\ SelectSeq(result.val, LAMBDA c : c \in plain) = SelectSeq(text, LAMBDA c : c \in plain)
        /\ Over(text, BodyElements \ (KeptTags \cup OtherTags \cup { "<br>", "\\" })) =>
              result.val = text

\* remove_wrong_chars has returned for the string a;b\nc\"d
SampleCleaned == result.fn = "remove_wrong_chars" /\ text = SampleName

\* C29: remove_wrong_chars of a, semicolon, b, newline, c, backslash, double
\* quote, d is a, space, b, space, c, double quote, d.
C29_SampleWithSpaces ==
    SampleCleaned => result.val = << "a", " ", "b", " ", "c", "\"", "d" >>

\* C29, amended: remove_wrong_chars of a, semicolon, b, newline, c,
\* backslash, double quote, d is a, b, space, c, double quote, d: the
\* semicolon is removed and leaves no space.
C29_SampleWithoutSemicolon ==
    SampleCleaned => result.val = << "a", "b", " ", "c", "\"", "d" >>

\* the sample string was cleaned: two of its eight characters are gone
C29_Witness ==
    /\ SampleCleaned
    /\ Len(text) = 8
    /\ Len(result.val) = 6

\* the parent column of the rows of an annotation table
Parents(tbl, col) == [i \in DOMAIN tbl |-> tbl[i][col]]

\* no two rows of tbl have the same parent
OnePerParent(tbl, col) ==
    \A i, j \in DOMAIN tbl : Parents(tbl, col)[i] = Parents(tbl, col)[j] => i = j

\* an annotation row for the parent of the row in flight was upserted
\* earlier in the file
SeenParent ==
    \E i \in DOMAIN hist :
        IF cur = "BookAnnotation"
          THEN hist[i].lit.book_id = Head(inflight).lit.book_id
          ELSE hist[i].lit.author_id = Head(inflight).lit.author_id

\* C30: book_annotations holds at most one row for a book and
\* author_annotations at most one row for an author, and the upsert of a
\* second annotation row for a parent adds no row: it writes the title of
\* the row that is there.
C30_OneAnnotationPerParent ==
    /\ [](OnePerParent(db.book_annotations, "book"))
    /\ [](OnePerParent(db.author_annotations, "author"))
    /\ [][(Execute /\ cur \in { "BookAnnotation", "AuthorAnnotation" } /\ SeenParent) =>
             /\ Len(db'.book_annotations) = Len(db.book_annotations)
             /\ Len(db'.author_annotations) = Len(db.author_annotations)]_vars

\* ---------------------------------------------------------------- C31
\* C31: a task whose download fails (the request, the status, the creation
\* of the local file, the copy) returns Err with the store as it was: no
\* hook and no upsert has run and none runs afterwards; and up to a failure
\* of the request or of the status the local file of an earlier download is
\* as that download left it.
DownloadStages == { "request", "status", "create", "copy" }

C31_FailedDownloadRunsNothing ==
    /\ [](res[cur] = "Err" =>
            /\ pc[cur] = "done"
            /\ db = EmptyDb
            /\ ~ENABLED FileNext)
    /\ [][res'[cur] = "Err" /\ res[cur] # "Err" /\ phase \in DownloadStages =>
            db' = db /\ phase' = phase]_vars
    /\ [][(phase = "request" \/ phase = "status") => file' = file]_vars

C31_Witness ==
    /\ res[cur] = "Err"
    /\ phase = "status"
    /\ file = "complete"
    /\ db = EmptyDb

\* ---------------------------------------------------------------- C32
\* C32: every invocation of update() that has spawned its tasks ends, also
\* when a dependent task polls a gate that will never read Success: every
\* dep of a task is joined before the task, and while update() is in its
\* join loop some task or the loop itself can take a step.
OwnersJoinedFirst ==
    \A i \in 1..Len(JoinOrder) : \A d \in Deps(JoinOrder[i]) :
        \E j \in 1..(i - 1) : JoinOrder[j] = d

\* task t polls a gate that is never written again
BlockedForever(t) ==
    /\ pc[t] = "wait"
    /\ \E d \in Deps(t) : gate[d] = "Fail" \/ res[d] = "Panic"

\* the handle the join loop is at: the first one that has not completed Ok
Awaited(t) == \E i \in 1..Len(JoinOrder) : Passed(i) /\ JoinOrder[i] = t /\ res[t] # "Ok"

C32_UpdateTerminates ==
    /\ [](OwnersJoinedFirst)
    /\ [](orch = "join" =>
            \A t \in Tasks : Awaited(t) =>
                IF pc[t] = "done" THEN ENABLED Join ELSE ENABLED (WaitDeps(t) \/ Process(t)))
    /\ (orch # "idle") ~> (orch = "idle")

C32_Witness ==
    /\ orch = "idle"
    /\ lastResult \in { "Err", "Panic" }
    /\ \E t \in Tasks : BlockedForever(t)
    /\ \A t \in Tasks : ~BlockedForever(t) => pc[t] = "done"

\* ---------------------------------------------------------------- C33
\* C33: a gate that reads Success belongs to a task that returned Ok with
\* every row of its dump applied, and a task past its wait loop has only
\* such tasks as owners of its deps.
Ingested(t) == pc[t] = "done" /\ res[t] = "Ok" /\ applied[t] = NRows

C33_SuccessMeansIngested ==
    /\ \A g \in Gates : gate[g] = "Success" => Ingested(g)
    /\ \A t \in Tasks : pc[t] \in { "run", "done" } => \A d \in Deps(t) : Ingested(d)

\* ---------------------------------------------------------------- C34
\* C34: the guard is held only while an invocation of update() is under
\* way; every way an invocation ends (Ok, a returned Err, a panic at the
\* pool, at the source lookup or in the join loop) leaves it free, and the
\* trigger that follows is not refused: it takes the guard and spawns.
StartsRun == Trigger /\ lock' /\ orch' = "join"

\* a call of update() that is refused at try_lock
Refused == Trigger /\ lastResult' = "AlreadyRunning"

\* the most recent invocation that took the guard has ended
HasReturned == lastResult \in { "Ok", "Err", "Panic" }

C34_GuardNeverLeaked ==
    /\ [](lock <=> orch # "idle")
    /\ [][(HasReturned' /\ lastResult' # lastResult) => ~lock']_vars
    /\ [](HasReturned => ENABLED StartsRun /\ ~ENABLED Refused)

C34_Witness ==
    /\ lastResult = "Panic"
    /\ ~lock
    /\ \E t \in Tasks : res[t] = "Err"
    /\ \E t \in Tasks : Alive(t)

\* ---------------------------------------------------------------- C35
\* the local ids of the rows of a parent table
Ids(tbl) == { tbl[i].id : i \in DOMAIN tbl }

\* the parent of the annotation row in flight is not in the store
ParentMissing ==
    IF cur = "BookAnnotation"
      THEN SelectId(db.books, Head(inflight).lit.book_id) = NULL
      ELSE SelectId(db.authors, Head(inflight).lit.author_id) = NULL

\* C35: every row of book_annotations references a row of books and every
\* row of author_annotations a row of authors, and the upsert of an
\* annotation row whose parent is not in the store leaves the store as it
\* is and returns Ok.
C35_AnnotationsReferenceParents ==
    /\ [](\A i \in DOMAIN db.book_annotations : db.book_annotations[i].book \in Ids(db.books))
    /\ [](\A i \in DOMAIN db.author_annotations :
             db.author_annotations[i].author \in Ids(db.authors))
    /\ [][(Execute /\ cur \in { "BookAnnotation", "AuthorAnnotation" } /\ ParentMissing) =>
             db' = db /\ UpsertReturnedOk]_vars

\* ---------------------------------------------------------------- C36
\* table new is table old with nothing changed but the file column of the
\* rows whose parent column col holds the local id parent
OnlyFileOf(old, new, col, parent) ==
    /\ Len(new) = Len(old)
    /\ \A i \in DOMAIN old :
          IF parent # NULL /\ old[i][col] = parent
            THEN new[i] = [old[i] EXCEPT !.file = new[i].file]
            ELSE new[i] = old[i]

\* the file columns of table new are those of table old, row by row
FilesKept(old, new) == \A i \in DOMAIN old : new[i].file = old[i].file

\* C36: the upsert of a BookAnnotationPic or AuthorAnnotationPic row leaves
\* every other table and the procedures as they are, adds and removes no
\* annotation row, and changes at most the file column of the annotation
\* row of the parent the row names; the upsert of a BookAnnotation or
\* AuthorAnnotation row leaves the file column of every row that is there.
C36_PicsWriteOnlyFile ==
    /\ [][(Execute /\ cur = "BookAnnotationPic") =>
            /\ \A f \in (Tables \cup { "procs" }) \ { "book_annotations" } : db'[f] = db[f]
            /\ OnlyFileOf(db.book_annotations, db'.book_annotations, "book",
                          SelectId(db.books, Head(inflight).lit.book_id))]_vars
    /\ [][(Execute /\ cur = "AuthorAnnotationPic") =>
            /\ \A f \in (Tables \cup { "procs" }) \ { "author_annotations" } : db'[f] = db[f]
            /\ OnlyFileOf(db.author_annotations, db'.author_annotations, "author",
                          SelectId(db.authors, Head(inflight).lit.author_id))]_vars
    /\ [][(Execute /\ cur \in { "BookAnnotation", "AuthorAnnotation" }) =>
            /\ FilesKept(db.book_annotations, db'.book_annotations)
            /\ FilesKept(db.author_annotations, db'.author_annotations)]_vars

\* the annotation of book 1 has had its file written by a BookAnnotationPic
\* row and kept its title, and a BookAnnotationPic row for a book that is
\* not in the store changed nothing
C36_Witness ==
    /\ cur = "BookAnnotationPic"
    /\ Len(hist) = 2
    /\ SelectId(db.books, hist[2].lit.book_id) = NULL
    /\ Len(db.book_annotations) = 1
    /\ db.book_annotations[1].title = AnnotatedDb.book_annotations[1].title
    /\ db.book_annotations[1].file = hist[1].lit.file
    /\ db.book_annotations[1].file # AnnotatedDb.book_annotations[1].file

\* ---------------------------------------------------------------- C37
\* the handler has answered the request in text with body
Answered(body) == result' = [ fn |-> "update", val |-> << body >> ]

\* C37: a request without an Authorization header is answered No api-key!,
\* one whose Authorization value is not the configured key is answered
\* Wrong api-key!, and neither changes the guard, the orchestrator or a
\* task; update() is called only for a request that carries the key.
C37_OnlyTheKeyStartsUpdate ==
    [][(\E h \in Requests : PostUpdate(h)) =>
          LET api_key == get(text', "Authorization")
          IN  /\ api_key = << >> =>
                    Answered("No api-key!") /\ UNCHANGED << orchVars, taskVars >>
              /\ (api_key # << >> /\ api_key # << ApiKey >>) =>
                    Answered("Wrong api-key!") /\ UNCHANGED << orchVars, taskVars >>
              /\ api_key = << ApiKey >> => Answered("Update started")]_vars

\* ---------------------------------------------------------------- C38
\* the u64 that a stored remote id stands for, or no id when it is negative
StoredAsU64(r) ==
    IF r < 0 THEN << >> ELSE << 0, 0, r \div (2 ^ 16), r % (2 ^ 16) >>

\* C38: every Author row upserted is stored under the remote id parsed from
\* the dump, and rows with different remote ids are different stored rows.
C38_RemoteIdsPreserved ==
    /\ \A i \in DOMAIN hist :
          \E k \in DOMAIN db.authors : StoredAsU64(db.authors[k].remote_id) = hist[i].lit.id
    /\ Len(db.authors) = Cardinality({ hist[i].lit.id : i \in DOMAIN hist })
====
